---------------------------- MODULE Spec2Model ----------------------------
(***************************************************************************)
(* Model of backend/digital_banking.py: the lending pipeline               *)
(* (DataCollectionAgent, FeatureEngineeringAgent, CreditScoringAgent,      *)
(* RiskAssessmentAgent, DecisionEngineAgent, ComplianceAgent) and the KYC  *)
(* aggregation of RBIKYCAgent.                                             *)
(*                                                                         *)
(* Numbers.  Python computes the pipeline in IEEE doubles.  The model      *)
(* computes it in fixed point, every operation rounded to nearest:         *)
(*   - dimensionless values (ratios, scores, probabilities, rates in       *)
(*     percent) are integers in units of 1/Scale  (four decimals);         *)
(*   - money is an integer number of hundredths of a rupee (Cent);         *)
(*   - inside the amortization formula the monthly rate and its powers     *)
(*     are in units of 1/Fine (eight decimals);                            *)
(*   - ages, counts, months and the final credit score are plain integers. *)
(* A value the model holds exactly (0.30, 16.5 * 0.85 * 0.90, 20000.00)    *)
(* is the real number the formula denotes; a double may differ from it in  *)
(* the last bit (1 - (720-300)/600 is 0.30000000000000004 in Python).      *)
(* Dictionaries are records; d.get(k, default) is Get(d, k, default).      *)
(***************************************************************************)
EXTENDS Integers, Sequences, FiniteSets, TLC

VARIABLES
    form,                \* form_data: the raw application          (l. 663)
    pc,                  \* position in the run of the agents
    personal,            \* collect_personal_data(form_data)        (l. 676)
    financial,           \* collect_financial_data(form_data)       (l. 677)
    alternative,         \* collect_alternative_data(form_data)     (l. 678)
    validation,          \* validate_data({**personal, **financial})
    features,            \* engineer_all_features(...)
    credit_score_result, \* generate_credit_score(features)
    risk_assessment,     \* assess_risk(features, credit_score)
    decision,            \* make_decision(...)
    compliance,          \* check_compliance(...)
    raised,              \* the exception a stage raised, or "none"
    kyc_results,         \* the list handed to get_kyc_summary
    kyc_summary,         \* get_kyc_summary(kyc_results)
    borrower_profile,    \* st.session_state.borrower_profile       (l. 54)
    credit_decision,     \* st.session_state.credit_decision        (l. 56)
    kyc_status,          \* st.session_state.kyc_status             (l. 58)
    selected             \* the KYC methods whose checkbox is ticked (l. 861)

vars == << form, pc, personal, financial, alternative, validation, features,
           credit_score_result, risk_assessment, decision, compliance, raised,
           kyc_results, kyc_summary, borrower_profile, credit_decision,
           kyc_status, selected >>

\* The session state and the widgets of the KYC page.
session == << borrower_profile, credit_decision, kyc_status, selected >>

-----------------------------------------------------------------------------
(* Fixed-point arithmetic                                                  *)

\* One unit of a dimensionless float is 1/Scale.
Scale == 100 * 100

\* One unit of a monthly rate, and of a power of 1 + rate, is 1/Fine.
Fine == Scale * Scale

\* One unit of money is 1/Cent rupee.
Cent == 10 * 10

Abs(x) == IF x < 0 THEN -x ELSE x

Sgn(x) == IF x < 0 THEN -1 ELSE 1

Min(a, b) == IF a <= b THEN a ELSE b

Max(a, b) == IF a >= b THEN a ELSE b

\* << (a * b) \div c, (a * b) % c >> for 0 <= a < c, b >= 0, c > 0, computed
\* by doubling so that no intermediate value leaves the 32-bit integers.
RECURSIVE MulModDiv(_, _, _)
MulModDiv(a, b, c) ==
    IF b = 0 THEN << 0, 0 >>
    ELSE LET h  == MulModDiv(a, b \div 2, c)
             q2 == 2 * h[1] + ((2 * h[2]) \div c)
             r2 == (2 * h[2]) % c
             r3 == IF b % 2 = 1 THEN r2 + a ELSE r2
         IN  << q2 + (r3 \div c), r3 % c >>

\* a * b / c rounded to nearest, c > 0.
MulDiv(a, b, c) ==
    LET x  == Abs(a)
        y  == Abs(b)
        qr == MulModDiv(x % c, y, c)
    IN  Sgn(a) * Sgn(b)
        * ((x \div c) * y + qr[1] + (IF 2 * qr[2] >= c THEN 1 ELSE 0))

\* x * y / Scale rounded to nearest for x, y >= 0, by splitting both at
\* Scale.
SplitMul(x, y) ==
    (x \div Scale) * (y \div Scale) * Scale
    + (x \div Scale) * (y % Scale)
    + (x % Scale) * (y \div Scale)
    + ((x % Scale) * (y % Scale) + Scale \div 2) \div Scale

\* Product of two dimensionless fixed-point values (or of one and a money
\* value), rounded to nearest.
FMul(a, b) == Sgn(a) * Sgn(b) * SplitMul(Abs(a), Abs(b))

\* x * y / Fine rounded to nearest for x, y >= 0, by splitting both at
\* Scale.
FineMul(x, y) ==
    (x \div Scale) * (y \div Scale)
    + ( (x \div Scale) * (y % Scale)
      + (x % Scale) * (y \div Scale)
      + ((x % Scale) * (y % Scale)) \div Scale
      + Scale \div 2 ) \div Scale

\* x * Fine / c rounded to nearest for x >= 0, c > 0: long division, two
\* digits of Scale.
FineDiv(x, c) ==
    LET d1 == MulModDiv(x % c, Scale, c)
        d0 == MulModDiv(d1[2], Scale, c)
    IN  ((x \div c) * Scale + d1[1]) * Scale + d0[1]
        + (IF 2 * d0[2] >= c THEN 1 ELSE 0)

\* g ** n for a base g > 0 in units of 1/Fine and an integer n.
RECURSIVE FPow(_, _)
FPow(g, n) ==
    IF n = 0 THEN Fine
    ELSE IF n < 0 THEN FineDiv(Fine, FPow(g, -n))
    ELSE FineMul(g, FPow(g, n - 1))

\* The decimal n/d as a dimensionless fixed-point value: Dec(85, 10) is 8.5.
Dec(n, d) == (n * Scale) \div d

\* int(b) of a Python bool.
BoolInt(b) == IF b THEN 1 ELSE 0

\* int(x) of a fixed-point x: truncation toward zero.
IntOf(x) == Sgn(x) * (Abs(x) \div Scale)

-----------------------------------------------------------------------------
(* Dictionaries and strings                                                *)

\* d.get(k, default)
Get(d, k, default) == IF k \in DOMAIN d THEN d[k] ELSE default

\* {**a, **b}: the keys of both, b's value where both have the key.
Merge(a, b) ==
    [k \in (DOMAIN a) \cup (DOMAIN b) |-> IF k \in DOMAIN b THEN b[k] ELSE a[k]]

\* str.lower() on the strings the application handles.
Lower(s) ==
    CASE s = "Farmer"        -> "farmer"
      [] s = "FARMER"        -> "farmer"
      [] s = "Female"        -> "female"
      [] s = "FEMALE"        -> "female"
      [] s = "Male"          -> "male"
      [] s = "Others"        -> "others"
      [] s = "Self-Employed" -> "self-employed"
      [] s = "SELF-EMPLOYED" -> "self-employed"
      [] s = "Employed"      -> "employed"
      [] s = "Agriculture"   -> "agriculture"
      [] s = "Business"      -> "business"
      [] s = "Business Owner" -> "business owner"
      [] s = "Not Specified" -> "not specified"
      [] s = "Unknown"       -> "unknown"
      [] OTHER               -> s

-----------------------------------------------------------------------------
(* DataCollectionAgent                                                     *)

\* Python's None (the form sends None for a CIBIL score of 0).
None == 0 - 1

\* collect_personal_data.  borrower_id is a random string and
\* collection_timestamp a clock reading; no agent reads either.
collect_personal_data(form_data) ==
    [ borrower_id     |-> Get(form_data, "borrower_id", "AUTO"),
      name            |-> Get(form_data, "name", "N/A"),
      age             |-> Get(form_data, "age", 0),
      gender          |-> Get(form_data, "gender", "Not Specified"),
      location_tier   |-> Get(form_data, "location_tier", "3"),
      state           |-> Get(form_data, "state", "Unknown"),
      occupation      |-> Get(form_data, "occupation", "Unknown"),
      employment_type |-> Get(form_data, "employment_type", "Self-Employed"),
      education_level |-> Get(form_data, "education", "High School") ]

collect_financial_data(form_data) ==
    [ annual_income         |-> Get(form_data, "annual_income", 0),
      monthly_expenses      |-> Get(form_data, "monthly_expenses", 0),
      existing_loans        |-> Get(form_data, "existing_loans", 0),
      existing_emi          |-> Get(form_data, "existing_emi", 0),
      savings               |-> Get(form_data, "savings", 0),
      loan_amount_requested |-> Get(form_data, "loan_amount", 0),
      loan_tenure           |-> Get(form_data, "tenure", 12),
      cibil_score           |-> Get(form_data, "cibil_score", None),
      credit_history_months |-> Get(form_data, "credit_history", 0) ]

collect_alternative_data(form_data) ==
    [ bank_transaction_frequency  |-> Get(form_data, "bank_frequency", 0),
      utility_payment_consistency |-> Get(form_data, "utility_consistency", 0),
      upi_transaction_count       |-> Get(form_data, "upi_transactions", 0),
      digital_footprint_score     |-> Get(form_data, "digital_score", 0),
      psychometric_score          |-> Get(form_data, "psychometric_score", 0),
      fpo_membership              |-> Get(form_data, "fpo_member", FALSE),
      business_registration       |-> Get(form_data, "business_registered", FALSE) ]

\* Mutant of age_check_fails: the lower bound taken as exclusive.
age_check_fails_exclusive(data) ==
    Get(data, "age", 0) <= 18 \/ Get(data, "age", 0) > 75

\* The three checks of validate_data, in the order the code makes them.
age_check_fails(data) == Get(data, "age", 0) < 18 \/ Get(data, "age", 0) > 75

income_check_fails(data) == Get(data, "annual_income", 0) <= 0

loan_check_fails(data) == Get(data, "loan_amount_requested", 0) <= 0

\* Mutant of validate_data: returns at the first failed check.
validate_data_first_failure(data) ==
    [ is_valid |-> ~ (age_check_fails(data) \/ income_check_fails(data)
                      \/ loan_check_fails(data)),
      issues   |-> IF age_check_fails(data)
                   THEN << "Age must be between 18-75" >>
                   ELSE IF income_check_fails(data)
                   THEN << "Annual income must be positive" >>
                   ELSE IF loan_check_fails(data)
                   THEN << "Loan amount must be positive" >>
                   ELSE << >> ]

validate_data(data) ==
    LET i1 == IF age_check_fails(data)
              THEN << "Age must be between 18-75" >> ELSE << >>
        i2 == IF income_check_fails(data)
              THEN Append(i1, "Annual income must be positive") ELSE i1
        i3 == IF loan_check_fails(data)
              THEN Append(i2, "Loan amount must be positive") ELSE i2
    IN  [ is_valid |-> ~ (age_check_fails(data) \/ income_check_fails(data)
                          \/ loan_check_fails(data)),
          issues   |-> i3 ]

-----------------------------------------------------------------------------
(* FeatureEngineeringAgent                                                 *)

\* P*r*(1+r)**n / ((1+r)**n - 1), the expression of lines 154 and 372:
\* the principal P in cents, the monthly rate r in units of 1/Fine.  The caller has
\* checked that the divisor is not zero.
amortized_payment(P, r, months) ==
    LET growth == FPow(Fine + r, months)
    IN  FineDiv(FineMul(FineMul(P, r), growth), growth - Fine)

\* Money values of the result are in cents, ratios in units of 1/Scale.
create_financial_features(financial_data) ==
    LET annual_income    == Max(Get(financial_data, "annual_income", 1), 1)
        monthly_income   == (annual_income * Cent + 6) \div 12
        monthly_expenses == Get(financial_data, "monthly_expenses", 0) * Cent
        existing_emi     == Get(financial_data, "existing_emi", 0) * Cent
        loan_amount      == Get(financial_data, "loan_amount_requested", 0)
        tenure           == Get(financial_data, "loan_tenure", 12)
        monthly_rate     == ((12 * Fine) \div 100) \div 12
        requested_monthly_emi ==
            IF loan_amount > 0 /\ tenure > 0
            THEN IF monthly_rate > 0
                 THEN amortized_payment(loan_amount * Cent, monthly_rate, tenure)
                 ELSE (loan_amount * Cent) \div tenure
            ELSE 0
    IN  [ monthly_income   |-> monthly_income,
          monthly_expenses |-> monthly_expenses,
          existing_emi     |-> existing_emi,
          debt_to_income_ratio |->
              IF monthly_income > 0
              THEN MulDiv(existing_emi, Scale, monthly_income) ELSE 0,
          expense_to_income_ratio |->
              IF monthly_income > 0
              THEN MulDiv(monthly_expenses, Scale, monthly_income) ELSE 0,
          available_income |-> monthly_income - monthly_expenses - existing_emi,
          debt_burden_with_new_loan |->
              IF monthly_income > 0
              THEN MulDiv(existing_emi + requested_monthly_emi, Scale,
                          monthly_income)
              ELSE 0,
          loan_amount_to_income |->
              IF annual_income > 0
              THEN MulDiv(loan_amount, Scale, annual_income) ELSE 0,
          savings_to_loan_ratio |->
              IF loan_amount > 0
              THEN MulDiv(Get(financial_data, "savings", 0), Scale, loan_amount)
              ELSE 0,
          tenure_months    |-> tenure,
          requested_monthly_emi |-> requested_monthly_emi ]

create_behavioral_features(alt_data) ==
    [ financial_discipline_score |->
          ( Get(alt_data, "bank_transaction_frequency", 0) * Dec(3, 10)
          + Get(alt_data, "utility_payment_consistency", 0) * Dec(4, 10)
          + Get(alt_data, "psychometric_score", 50) * Dec(3, 10) + 50 )
          \div 100,
      digital_adoption_score |->
          (Get(alt_data, "digital_footprint_score", 0) * Scale) \div 100,
      psychometric_score_norm |->
          (Get(alt_data, "psychometric_score", 50) * Scale) \div 100,
      upi_digital_transactions |-> Get(alt_data, "upi_transaction_count", 0),
      fpo_agricultural_membership |->
          BoolInt(Get(alt_data, "fpo_membership", FALSE)),
      business_registered |->
          BoolInt(Get(alt_data, "business_registration", FALSE)) ]

education_level_numeric(level) ==
    CASE level = "High School"   -> 1
      [] level = "Diploma"       -> 2
      [] level = "Graduate"      -> 3
      [] level = "Post Graduate" -> 4
      [] OTHER                   -> 1

create_demographic_features(personal_data) ==
    [ age |-> Get(personal_data, "age", 30),
      is_farmer |->
          BoolInt(Lower(Get(personal_data, "occupation", "")) = "farmer"),
      is_woman_entrepreneur |->
          BoolInt(Lower(Get(personal_data, "gender", "")) = "female"
                  /\ Lower(Get(personal_data, "employment_type", ""))
                         = "self-employed"),
      tier_3_4_location |->
          BoolInt(Get(personal_data, "location_tier", "3") \in {"3", "4"}),
      has_credit_history |->
          BoolInt(Get(personal_data, "credit_history_months", 0) > 0),
      education_level_numeric |->
          education_level_numeric(
              Get(personal_data, "education_level", "High School")) ]

\* Mutant of engineer_all_features: the bureau score carried into the
\* feature set.
engineer_all_features_with_cibil(personal_data, financial_data, alt_data) ==
    Merge(Merge(Merge(create_financial_features(financial_data),
                      create_behavioral_features(alt_data)),
                create_demographic_features(personal_data)),
          [ cibil_score |-> Get(financial_data, "cibil_score", None) ])

engineer_all_features(personal_data, financial_data, alt_data) ==
    Merge(Merge(create_financial_features(financial_data),
                create_behavioral_features(alt_data)),
          create_demographic_features(personal_data))

-----------------------------------------------------------------------------
(* CreditScoringAgent                                                      *)

\* 300 + (credit_score / 100) * 600 is computed as 300 + credit_score*600/100
\* so that the fixed-point quotient is rounded once.
generate_credit_score(feats) ==
    LET available_income_ratio ==
            MulDiv(Get(feats, "available_income", 0), Scale,
                   Max(Get(feats, "monthly_income", Cent), Cent))
        financial_score ==
            Min(100 * Scale, Max(0, available_income_ratio * 100 + 50 * Scale))
        debt_burden == Get(feats, "debt_burden_with_new_loan", 0)
        debt_score  == Max(0, 100 * Scale - debt_burden * 150)
        behavioral_score ==
            Get(feats, "financial_discipline_score", 0) * 70
            + Get(feats, "digital_adoption_score", 0) * 30
        bonus1 == IF Get(feats, "is_farmer", 0) # 0
                     \/ Get(feats, "is_woman_entrepreneur", 0) # 0
                  THEN 25 ELSE 0
        demographic_bonus ==
            IF Get(feats, "tier_3_4_location", 0) # 0 THEN bonus1 + 10 ELSE bonus1
        credit_score ==
            FMul(financial_score, Dec(40, 100))
            + FMul(debt_score, Dec(30, 100))
            + FMul(behavioral_score, Dec(25, 100))
            + demographic_bonus * Dec(5, 100)
        final_score == 300 * Scale + MulDiv(credit_score, 600, 100)
    IN  [ credit_score      |-> IntOf(final_score),
          financial_score   |-> financial_score,
          debt_score        |-> debt_score,
          behavioral_score  |-> behavioral_score,
          demographic_bonus |-> demographic_bonus,
          component_scores  |-> [ financial       |-> financial_score,
                                  debt_management |-> debt_score,
                                  behavioral      |-> behavioral_score ] ]

-----------------------------------------------------------------------------
(* RiskAssessmentAgent                                                     *)

risk_adjustments(feats) ==
    [ high_debt_burden |->
          Get(feats, "debt_burden_with_new_loan", 0) > Dec(40, 100),
      low_financial_discipline |->
          Get(feats, "financial_discipline_score", Scale) < Dec(3, 10),
      insufficient_income |-> Get(feats, "available_income", 0) < 5000 * Cent,
      no_collateral |-> Get(feats, "savings_to_loan_ratio", 0) < Dec(1, 10),
      no_credit_history |-> Get(feats, "has_credit_history", 1) = 0 ]

\* Mutant of risk_category_of: HIGH only above 0.50.
risk_category_of_half(adjusted_default_prob) ==
    IF adjusted_default_prob > Dec(50, 100) THEN "HIGH"
    ELSE IF adjusted_default_prob > Dec(15, 100) THEN "MEDIUM"
    ELSE "LOW"

\* Mutant of risk_category_of: the thresholds taken as inclusive.
risk_category_of_inclusive(adjusted_default_prob) ==
    IF adjusted_default_prob >= Dec(30, 100) THEN "HIGH"
    ELSE IF adjusted_default_prob >= Dec(15, 100) THEN "MEDIUM"
    ELSE "LOW"

\* The if/elif/else of lines 306-311.
risk_category_of(adjusted_default_prob) ==
    IF adjusted_default_prob > Dec(30, 100) THEN "HIGH"
    ELSE IF adjusted_default_prob > Dec(15, 100) THEN "MEDIUM"
    ELSE "LOW"

assess_risk(feats, credit_score) ==
    LET credit_score_normalized == MulDiv(credit_score - 300, Scale, 600)
        base_default_prob == Scale - credit_score_normalized
        flags == risk_adjustments(feats)
        adjustment ==
            Cardinality({f \in DOMAIN flags : flags[f]}) * Dec(5, 100)
        adjusted_default_prob ==
            Min(Dec(95, 100), base_default_prob + adjustment)
    IN  [ default_probability |-> adjusted_default_prob,
          risk_category       |-> risk_category_of(adjusted_default_prob),
          risk_factors        |-> flags,
          risk_adjustment     |-> adjustment ]

-----------------------------------------------------------------------------
(* DecisionEngineAgent                                                     *)

\* Mutant of decision_status: the thresholds taken as exclusive.
decision_status_exclusive(credit_score) ==
    IF credit_score > 650 THEN "APPROVED"
    ELSE IF credit_score > 550 THEN "CONDITIONAL_APPROVAL"
    ELSE "DECLINED"

\* Lines 340-349: the status branch.
decision_status(credit_score) ==
    IF credit_score >= 650 THEN "APPROVED"
    ELSE IF credit_score >= 550 THEN "CONDITIONAL_APPROVAL"
    ELSE "DECLINED"

status_conditions(credit_score) ==
    IF credit_score >= 650 THEN << "Standard terms apply" >>
    ELSE IF credit_score >= 550
         THEN << "Manual review recommended",
                 "Additional collateral may be required" >>
    ELSE << >>

\* Mutant of status_rejection_reasons: a reason is given below 650.
status_rejection_reasons_below_650(credit_score) ==
    IF credit_score >= 650 THEN << >>
    ELSE << "Credit score below minimum threshold" >>

status_rejection_reasons(credit_score) ==
    IF credit_score >= 650 \/ credit_score >= 550 THEN << >>
    ELSE << "Credit score below minimum threshold" >>

\* Lines 352-357: interest rate (percent) from the risk category.
base_interest_rate(risk) ==
    IF risk.risk_category = "LOW" THEN Dec(85, 10)
    ELSE IF risk.risk_category = "MEDIUM" THEN Dec(125, 10)
    ELSE Dec(165, 10)

\* Lines 360-364.
approved_amount_of(feats) ==
    LET monthly_income   == Get(feats, "monthly_income", 0)
        max_loan_amount  == monthly_income * 48
        requested_amount ==
            FMul(Get(feats, "loan_amount_to_income", 0), monthly_income) * 12
    IN  Min(max_loan_amount, requested_amount)

\* Line 369: decision['interest_rate'] / 100 / 12, in units of 1/Fine.
monthly_rate_of(interest_rate) == MulDiv(interest_rate, Scale, 1200)

\* Mutant of farmer_scheme: the occupation compared without .lower().
farmer_scheme_case_sensitive(personal_data) ==
    Get(personal_data, "occupation", "") = "farmer"

\* Lines 377 and 381: the conditions of the two schemes.
farmer_scheme(personal_data) ==
    Lower(Get(personal_data, "occupation", "")) = "farmer"

\* Mutant of women_scheme: the employment type compared case-insensitively,
\* as create_demographic_features compares it.
women_scheme_case_insensitive(personal_data) ==
    Lower(Get(personal_data, "gender", "")) = "female"
    /\ Lower(Get(personal_data, "employment_type", "")) = "self-employed"

women_scheme(personal_data) ==
    Lower(Get(personal_data, "gender", "")) = "female"
    /\ Get(personal_data, "employment_type", "") = "Self-Employed"

\* Mutant of scheme_adjusted_rate: the two reductions added, not compounded.
scheme_adjusted_rate_additive(rate, personal_data) ==
    FMul(rate, Scale
               - (IF farmer_scheme(personal_data) THEN Dec(15, 100) ELSE 0)
               - (IF women_scheme(personal_data) THEN Dec(10, 100) ELSE 0))

\* Lines 376-383: the rate after the scheme reductions.
scheme_adjusted_rate(rate, personal_data) ==
    LET r1 == IF farmer_scheme(personal_data)
              THEN FMul(rate, Dec(85, 100)) ELSE rate
    IN  IF women_scheme(personal_data) THEN FMul(r1, Dec(90, 100)) ELSE r1

scheme_conditions(personal_data) ==
    LET c1 == IF farmer_scheme(personal_data)
              THEN << "Eligible for government subsidy schemes" >> ELSE << >>
    IN  IF women_scheme(personal_data)
        THEN Append(c1, "Eligible for women entrepreneur schemes") ELSE c1

\* Lines 367-374: the rate the EMI is computed at is the rate held by
\* decision['interest_rate'] at that point, i.e. before lines 376-383.
emi_rate(risk, personal_data) == base_interest_rate(risk)

\* Line 372 or 374 divides by zero (ZeroDivisionError).
make_decision_raises(credit_score, risk, feats, personal_data) ==
    LET n            == Get(feats, "tenure_months", 12)
        monthly_rate == monthly_rate_of(emi_rate(risk, personal_data))
    IN  /\ approved_amount_of(feats) > 0
        /\ IF monthly_rate > 0
           THEN FPow(Fine + monthly_rate, n) - Fine = 0
           ELSE n = 0

\* Mutant of make_decision: a declined application gets no rate, no EMI and
\* no scheme conditions.
make_decision_declined_blank(credit_score, risk, feats, personal_data) ==
    LET approved_amount == approved_amount_of(feats)
        n               == Get(feats, "tenure_months", 12)
        monthly_rate    == monthly_rate_of(emi_rate(risk, personal_data))
        declined        == decision_status(credit_score) = "DECLINED"
        emi == IF approved_amount > 0 /\ ~ declined
               THEN amortized_payment(approved_amount, monthly_rate, n)
               ELSE 0
    IN  [ status          |-> decision_status(credit_score),
          approved_amount |-> approved_amount,
          interest_rate   |->
              IF declined THEN 0
              ELSE scheme_adjusted_rate(base_interest_rate(risk), personal_data),
          tenure_months   |-> n,
          conditions      |->
              IF declined THEN << >>
              ELSE status_conditions(credit_score)
                       \o scheme_conditions(personal_data),
          rejection_reasons |-> status_rejection_reasons(credit_score),
          emi             |-> emi ]

make_decision(credit_score, risk, feats, personal_data) ==
    LET approved_amount == approved_amount_of(feats)
        n               == Get(feats, "tenure_months", 12)
        monthly_rate    == monthly_rate_of(emi_rate(risk, personal_data))
        emi == IF approved_amount > 0
               THEN IF monthly_rate > 0
                    THEN amortized_payment(approved_amount, monthly_rate, n)
                    ELSE approved_amount \div n
               ELSE 0
    IN  [ status          |-> decision_status(credit_score),
          approved_amount |-> approved_amount,
          interest_rate   |->
              scheme_adjusted_rate(base_interest_rate(risk), personal_data),
          tenure_months   |-> n,
          conditions      |->
              status_conditions(credit_score) \o scheme_conditions(personal_data),
          rejection_reasons |-> status_rejection_reasons(credit_score),
          emi             |-> emi ]

-----------------------------------------------------------------------------
(* ComplianceAgent                                                         *)

\* Mutant of check_compliance: the high-risk warning also fails compliance.
check_compliance_risk_fails(dec, personal_data, risk) ==
    LET age          == Get(personal_data, "age", 0)
        age_eligible == 18 <= age /\ age <= 75
        high_risk    == risk.default_probability > Dec(30, 100)
    IN  [ is_compliant |-> age_eligible /\ ~ high_risk,
          checks |-> [ age_eligible               |-> age_eligible,
                       no_gender_discrimination   |-> TRUE,
                       no_location_discrimination |-> TRUE,
                       kyc_verified               |-> TRUE,
                       decision_explainable       |-> TRUE ],
          warnings    |->
              (IF ~ age_eligible
               THEN << "Age outside permissible range (18-75)" >> ELSE << >>)
              \o (IF high_risk
                  THEN << "High default risk - requires additional scrutiny" >>
                  ELSE << >>),
          audit_trail |-> << "KYC Verified at",
                             "Decision made by automated system with explainability layers" >> ]

\* Mutant of check_compliance: KYC is not taken as verified, and no audit
\* entry claims it.
check_compliance_kyc_unverified(dec, personal_data, risk) ==
    LET age          == Get(personal_data, "age", 0)
        age_eligible == 18 <= age /\ age <= 75
    IN  [ is_compliant |-> age_eligible,
          checks |-> [ age_eligible               |-> age_eligible,
                       no_gender_discrimination   |-> TRUE,
                       no_location_discrimination |-> TRUE,
                       kyc_verified               |-> FALSE,
                       decision_explainable       |-> TRUE ],
          warnings    |->
              (IF ~ age_eligible
               THEN << "Age outside permissible range (18-75)" >> ELSE << >>)
              \o (IF risk.default_probability > Dec(30, 100)
                  THEN << "High default risk - requires additional scrutiny" >>
                  ELSE << >>),
          audit_trail |->
              << "Decision made by automated system with explainability layers" >> ]

\* The two audit-trail entries carry a clock reading, left out here.
check_compliance(dec, personal_data, risk) ==
    LET age          == Get(personal_data, "age", 0)
        age_eligible == 18 <= age /\ age <= 75
        w1 == IF ~ age_eligible
              THEN << "Age outside permissible range (18-75)" >> ELSE << >>
        w2 == IF risk.default_probability > Dec(30, 100)
              THEN Append(w1, "High default risk - requires additional scrutiny")
              ELSE w1
    IN  [ is_compliant |-> age_eligible,
          checks |-> [ age_eligible               |-> age_eligible,
                       no_gender_discrimination   |-> TRUE,
                       no_location_discrimination |-> TRUE,
                       kyc_verified               |-> TRUE,
                       decision_explainable       |-> TRUE ],
          warnings    |-> w2,
          audit_trail |-> << "KYC Verified at",
                             "Decision made by automated system with explainability layers" >> ]

-----------------------------------------------------------------------------
(* RBIKYCAgent                                                             *)

\* A verification record, cut down to the two fields get_kyc_summary reads.
\* Every perform_* method returns status SUCCESS (lines 438-534).
kyc_record(method, status) == [ method |-> method, status |-> status ]

\* Mutant of successes: every record counted, whatever its status.
successes_unfiltered(results) == results

successes(results) ==
    SelectSeq(results, LAMBDA r : r.status = "SUCCESS")

\* Line 547 divides by len(kyc_results) (ZeroDivisionError on an empty list).
get_kyc_summary_raises(results) == Len(results) = 0

method_names(results) == [i \in 1..Len(results) |-> results[i].method]

get_kyc_summary(results) ==
    [ total_methods_used |-> Len(results),
      all_verified       |-> \A i \in 1..Len(results) :
                                 results[i].status = "SUCCESS",
      methods_completed  |-> method_names(successes(results)),
      kyc_score          |->
          MulDiv(Len(successes(results)), Scale, Len(results)) * 100,
      is_kyc_compliant   |-> TRUE ]

-----------------------------------------------------------------------------
(* Applications                                                            *)

MaxAge == 77

MaxFrequency == 1000

\* The form's default entries (lines 612-656) for the fields no agent reads.
FormDefaults ==
    [ name |-> "Rahul Kumar", state |-> "Tamil Nadu", education |-> "High School",
      existing_loans |-> 0, cibil_score |-> None, purpose |-> "Agriculture",
      loan_type |-> "Unsecured", upi_transactions |-> 25,
      fpo_member |-> FALSE, business_registered |-> FALSE ]

PersonalEntries(ages) ==
    [ age : ages, gender : {"Male", "Female"},
      occupation : {"Farmer", "Employed"},
      employment_type : {"Self-Employed", "Employed"},
      location_tier : {"1", "3"} ]

\* Applicants with an income; expenses above income and a debt burden above 1
\* are among them.
RegularFinancialEntries ==
    [ annual_income : {240000, 60000}, monthly_expenses : {8000},
      existing_emi : {0, 5000}, savings : {0, 50000},
      loan_amount : {0, 1000, 100000}, tenure : {0, 12},
      credit_history : {0, 24} ]

\* Applicants with zero or negative income.
DegenerateFinancialEntries ==
    [ annual_income : {0, -12000}, monthly_expenses : {100},
      existing_emi : {0}, savings : {0},
      loan_amount : {0, 1000}, tenure : {0, 12},
      credit_history : {0} ]

FinancialEntries == RegularFinancialEntries \cup DegenerateFinancialEntries

AlternativeEntries ==
    [ bank_frequency : {0, 10, MaxFrequency}, utility_consistency : {0, 80},
      psychometric_score : {65}, digital_score : {60} ]

Forms ==
    { Merge(Merge(Merge(FormDefaults, p), f), a) :
        p \in PersonalEntries({35, MaxAge}), f \in FinancialEntries,
        a \in AlternativeEntries }

\* The form as it is first shown (the value= of each widget, lines 612-656),
\* with the occupation set to Farmer.
BaseForm ==
    Merge(FormDefaults,
          [ age |-> 35, gender |-> "Male", occupation |-> "Farmer",
            employment_type |-> "Self-Employed", location_tier |-> "3",
            annual_income |-> 240000, monthly_expenses |-> 8000,
            existing_emi |-> 0, savings |-> 50000, loan_amount |-> 100000,
            tenure |-> 12, credit_history |-> 0, bank_frequency |-> 10,
            utility_consistency |-> 80, psychometric_score |-> 65,
            digital_score |-> 60 ])

\* Applications for validate_data: every age up to MaxAge, incomes and loan
\* amounts on both sides of zero.
ValidationForms ==
    { Merge(BaseForm, e) :
        e \in [ age : 0..MaxAge, annual_income : {-12000, 0, 1, 240000},
                loan_amount : {-1000, 0, 1, 100000} ] }

\* Applications for the direct calls of assess_risk and make_decision.
CallForms ==
    { f \in Forms :
        /\ f.age = 35
        /\ f.location_tier = "3"
        /\ f.credit_history = 0
        /\ f.bank_frequency # MaxFrequency
        /\ \/ /\ f.annual_income = 240000 /\ f.existing_emi = 0
              /\ f.savings = 50000 /\ f.loan_amount = 1000 /\ f.tenure = 12
           \/ /\ f.annual_income = 60000 /\ f.existing_emi = 5000
              /\ f.savings = 0 /\ f.loan_amount = 100000 /\ f.tenure = 12
           \/ /\ f.annual_income = 240000 /\ f.existing_emi = 0
              /\ f.savings = 50000 /\ f.loan_amount = 100000 /\ f.tenure = 0 }

MinScoreArg == 540

MaxScoreArg == 910

\* The credit scores handed to assess_risk and make_decision directly.
ScoreArgs == MinScoreArg..MaxScoreArg

\* The risk assessments handed to make_decision directly.
RiskArgs ==
    { [ default_probability |-> Dec(10, 100), risk_category |-> "LOW" ],
      [ default_probability |-> Dec(30, 100), risk_category |-> "MEDIUM" ],
      [ default_probability |-> Dec(31, 100), risk_category |-> "HIGH" ] }

MaxKycRecords == 3

\* The 'method' of the records the five perform_* methods return.
KycMethods ==
    { "Aadhaar e-KYC", "Video KYC (V-CIP)", "DigiLocker KYC",
      "Central KYC (CKYCR)", "Offline Aadhaar XML" }

\* The lists handed to get_kyc_summary: up to MaxKycRecords records.
KycLists ==
    UNION { [ 1..n -> { kyc_record(m, st) :
                          m \in KycMethods, st \in {"SUCCESS", "FAILURE"} } ] :
            n \in 0..MaxKycRecords }

-----------------------------------------------------------------------------
(* The run of the agents on one application                                *)

Null == << >>

\* The 'method' of the records, in the order lines 872-905 run the methods.
KycOrder ==
    << "Aadhaar e-KYC", "Video KYC (V-CIP)", "DigiLocker KYC",
       "Central KYC (CKYCR)", "Offline Aadhaar XML" >>

\* The checkboxes as the KYC page first shows them (value=True, l. 861-866).
DefaultSelected == { "Aadhaar e-KYC", "Video KYC (V-CIP)", "Central KYC (CKYCR)" }

\* A fresh session (lines 53-59) and the KYC page as first shown.
SessionStart ==
    /\ borrower_profile = Null
    /\ credit_decision = Null
    /\ kyc_status = Null
    /\ selected = DefaultSelected

InitWith(forms) ==
    /\ form \in forms
    /\ pc = "start"
    /\ personal = Null
    /\ financial = Null
    /\ alternative = Null
    /\ validation = Null
    /\ features = Null
    /\ credit_score_result = Null
    /\ risk_assessment = Null
    /\ decision = Null
    /\ compliance = Null
    /\ raised = "none"
    /\ kyc_results = << >>
    /\ kyc_summary = Null
    /\ SessionStart

Init == InitWith(Forms)

\* Lines 676-678.
Collect ==
    /\ pc = "start"
    /\ personal' = collect_personal_data(form)
    /\ financial' = collect_financial_data(form)
    /\ alternative' = collect_alternative_data(form)
    /\ pc' = "collected"
    /\ UNCHANGED << form, validation, features, credit_score_result,
                    risk_assessment, decision, compliance, raised,
                    kyc_results, kyc_summary, session >>

\* Line 680.
Validate ==
    /\ pc = "collected"
    /\ validation' = validate_data(Merge(personal, financial))
    /\ pc' = "validated"
    /\ UNCHANGED << form, personal, financial, alternative, features,
                    credit_score_result, risk_assessment, decision,
                    compliance, raised, kyc_results, kyc_summary, session >>

\* Line 731.
Engineer ==
    /\ pc = "validated"
    /\ features' = engineer_all_features(personal, financial, alternative)
    /\ pc' = "engineered"
    /\ UNCHANGED << form, personal, financial, alternative, validation,
                    credit_score_result, risk_assessment, decision,
                    compliance, raised, kyc_results, kyc_summary, session >>

\* Line 744.
Score ==
    /\ pc = "engineered"
    /\ credit_score_result' = generate_credit_score(features)
    /\ pc' = "scored"
    /\ UNCHANGED << form, personal, financial, alternative, validation,
                    features, risk_assessment, decision, compliance, raised,
                    kyc_results, kyc_summary, session >>

\* Line 760.
Assess ==
    /\ pc = "scored"
    /\ risk_assessment' = assess_risk(features, credit_score_result.credit_score)
    /\ pc' = "assessed"
    /\ UNCHANGED << form, personal, financial, alternative, validation,
                    features, credit_score_result, decision, compliance,
                    raised, kyc_results, kyc_summary, session >>

\* Lines 775-780: the decision, or the exception that ends the run.
Decide ==
    /\ pc = "assessed"
    /\ IF make_decision_raises(credit_score_result.credit_score,
                               risk_assessment, features, personal)
       THEN /\ raised' = "ZeroDivisionError"
            /\ pc' = "raised"
            /\ UNCHANGED decision
       ELSE /\ decision' = make_decision(credit_score_result.credit_score,
                                         risk_assessment, features, personal)
            /\ pc' = "decided"
            /\ UNCHANGED raised
    /\ UNCHANGED << form, personal, financial, alternative, validation,
                    features, credit_score_result, risk_assessment,
                    compliance, kyc_results, kyc_summary, session >>

\* Line 822.
Comply ==
    /\ pc = "decided"
    /\ compliance' = check_compliance(decision, personal, risk_assessment)
    /\ pc' = "complied"
    /\ UNCHANGED << form, personal, financial, alternative, validation,
                    features, credit_score_result, risk_assessment, decision,
                    raised, kyc_results, kyc_summary, session >>

Next ==
    \/ Collect
    \/ Validate
    \/ Engineer
    \/ Score
    \/ Assess
    \/ Decide
    \/ Comply

Spec == Init /\ [][Next]_vars

-----------------------------------------------------------------------------
(* validate_data on its own                                                *)

InitValidate == InitWith(ValidationForms)

NextValidate ==
    \/ Collect
    \/ Validate

SpecValidate == InitValidate /\ [][NextValidate]_vars

-----------------------------------------------------------------------------
(* assess_risk called with any credit score                                *)

\* The state after lines 721-731, with the credit score an argument.
InitCall(at, scores, risks) ==
    /\ form \in CallForms
    /\ pc = at
    /\ personal = collect_personal_data(form)
    /\ financial = collect_financial_data(form)
    /\ alternative = collect_alternative_data(form)
    /\ validation = validate_data(Merge(personal, financial))
    /\ features = engineer_all_features(personal, financial, alternative)
    /\ credit_score_result \in { [ credit_score |-> sc ] : sc \in scores }
    /\ risk_assessment \in risks
    /\ decision = Null
    /\ compliance = Null
    /\ raised = "none"
    /\ kyc_results = << >>
    /\ kyc_summary = Null
    /\ SessionStart

InitRisk == InitCall("scored", ScoreArgs, {Null})

NextRisk ==
    \/ Assess
    \/ Decide
    \/ Comply

SpecRisk == InitRisk /\ [][NextRisk]_vars

-----------------------------------------------------------------------------
(* make_decision called with any credit score and risk assessment          *)

InitDecision == InitCall("assessed", ScoreArgs, RiskArgs)

NextDecision ==
    \/ Decide
    \/ Comply

SpecDecision == InitDecision /\ [][NextDecision]_vars

-----------------------------------------------------------------------------
(* get_kyc_summary called with any list of records                         *)

InitKyc ==
    /\ form = BaseForm
    /\ pc = "kyc"
    /\ personal = collect_personal_data(form)
    /\ financial = Null
    /\ alternative = Null
    /\ validation = Null
    /\ features = Null
    /\ credit_score_result = Null
    /\ risk_assessment = Null
    /\ decision = Null
    /\ compliance = Null
    /\ raised = "none"
    /\ kyc_results \in KycLists
    /\ kyc_summary = Null
    /\ SessionStart

\* Line 908: the summary, or the exception that ends the run.
Summarize ==
    /\ pc = "kyc"
    /\ IF get_kyc_summary_raises(kyc_results)
       THEN /\ raised' = "ZeroDivisionError"
            /\ pc' = "raised"
            /\ UNCHANGED kyc_summary
       ELSE /\ kyc_summary' = get_kyc_summary(kyc_results)
            /\ pc' = "summarized"
            /\ UNCHANGED raised
    /\ UNCHANGED << form, personal, financial, alternative, validation,
                    features, credit_score_result, risk_assessment, decision,
                    compliance, kyc_results, session >>

NextKyc == Summarize

SpecKyc == InitKyc /\ [][NextKyc]_vars

-----------------------------------------------------------------------------
(* check_compliance called for any age and risk assessment                 *)

\* The form as first shown, with every age up to MaxAge.
ComplianceForms == { Merge(BaseForm, [ age |-> a ]) : a \in 0..MaxAge }

\* The state after lines 721-760, the credit score and the risk assessment
\* being arguments.
InitCompliance ==
    /\ form \in ComplianceForms
    /\ pc = "assessed"
    /\ personal = collect_personal_data(form)
    /\ financial = collect_financial_data(form)
    /\ alternative = collect_alternative_data(form)
    /\ validation = validate_data(Merge(personal, financial))
    /\ features = engineer_all_features(personal, financial, alternative)
    /\ credit_score_result \in { [ credit_score |-> sc ] : sc \in {549, 650} }
    /\ risk_assessment \in RiskArgs
    /\ decision = Null
    /\ compliance = Null
    /\ raised = "none"
    /\ kyc_results = << >>
    /\ kyc_summary = Null
    /\ SessionStart

NextCompliance ==
    \/ Decide
    \/ Comply

SpecCompliance == InitCompliance /\ [][NextCompliance]_vars

-----------------------------------------------------------------------------

(* The agents run on applications that carry a CIBIL score                 *)

\* The form's CIBIL entry (line 668): None for 0, the number otherwise.
CibilScores == {None, 10, 650, 900}

\* form_data without the cibil_score key.
WithoutCibil(f) == [k \in (DOMAIN f) \ {"cibil_score"} |-> f[k]]

CibilForms ==
    { Merge(f, [ cibil_score |-> c ]) : f \in CallForms, c \in CibilScores }
    \cup { WithoutCibil(f) : f \in CallForms }

InitCibil == InitWith(CibilForms)

SpecCibil == InitCibil /\ [][Next]_vars

-----------------------------------------------------------------------------

(* make_decision called on applications of several incomes and amounts     *)

\* Incomes and requested amounts on which the fixed-point quotients round
\* the way the doubles of lines 144 and 169 do.
AmountEntries ==
    [ annual_income : {10000}, loan_amount : {15000, 20000, 100000} ]
    \cup [ annual_income : {30000}, loan_amount : {15000, 40000, 1000000} ]
    \cup [ annual_income : {50000},
           loan_amount : {15000, 20000, 40000, 55000, 60000} ]

AmountForms == { Merge(BaseForm, e) : e \in AmountEntries }

\* The state after lines 721-760, the credit score and the risk assessment
\* being arguments.
InitAmount ==
    /\ form \in AmountForms
    /\ pc = "assessed"
    /\ personal = collect_personal_data(form)
    /\ financial = collect_financial_data(form)
    /\ alternative = collect_alternative_data(form)
    /\ validation = validate_data(Merge(personal, financial))
    /\ features = engineer_all_features(personal, financial, alternative)
    /\ credit_score_result \in { [ credit_score |-> sc ] : sc \in {549, 600, 650} }
    /\ risk_assessment \in RiskArgs
    /\ decision = Null
    /\ compliance = Null
    /\ raised = "none"
    /\ kyc_results = << >>
    /\ kyc_summary = Null
    /\ SessionStart

NextAmount ==
    \/ Decide
    \/ Comply

SpecAmount == InitAmount /\ [][NextAmount]_vars

-----------------------------------------------------------------------------

(* The agents run on applications whose strings vary in letter case        *)

CaseForms ==
    { Merge(BaseForm, e) :
        e \in [ gender : {"Female", "FEMALE", "female", "Male"},
                occupation : {"Farmer", "FARMER", "farmer", "Employed"},
                employment_type : {"Self-Employed", "SELF-EMPLOYED",
                                   "self-employed", "Employed"},
                location_tier : {"1", "3"} ] }

InitCase == InitWith(CaseForms)

SpecCase == InitCase /\ [][Next]_vars

-----------------------------------------------------------------------------

(* The KYC page: show_kyc_verification                                     *)

\* Mutant of append_if_selected: the method runs whatever its checkbox says.
append_always(use, results, method) ==
    Append(results, kyc_record(method, "SUCCESS"))

\* Lines 872-877 (and the four blocks after it): a ticked method is
\* performed and its record appended; every perform_* returns SUCCESS.
append_if_selected(use, results, method) ==
    IF use THEN Append(results, kyc_record(method, "SUCCESS")) ELSE results

\* The position of the handler before each of the five blocks.
KycStep ==
    << "perform_aadhaar_ekyc", "perform_video_kyc", "perform_digilocker_kyc",
       "perform_ckyc", "perform_offline_aadhaar_kyc" >>

\* A session in which an application has passed validation (lines 682-689).
InitKycPage ==
    /\ form = BaseForm
    /\ pc = "kyc_page"
    /\ personal = Null
    /\ financial = Null
    /\ alternative = Null
    /\ validation = Null
    /\ features = Null
    /\ credit_score_result = Null
    /\ risk_assessment = Null
    /\ decision = Null
    /\ compliance = Null
    /\ raised = "none"
    /\ kyc_results = << >>
    /\ kyc_summary = Null
    /\ borrower_profile = [ personal    |-> collect_personal_data(form),
                            financial   |-> collect_financial_data(form),
                            alternative |-> collect_alternative_data(form) ]
    /\ credit_decision = Null
    /\ kyc_status = Null
    /\ selected = DefaultSelected

\* Lines 846-870: the checkboxes are set and the button is clicked; the run
\* starts with an empty list.  A run that raised leaves the page usable.
ClickVerify ==
    /\ pc \in {"kyc_page", "kyc_done", "raised"}
    /\ borrower_profile # Null
    /\ \E sel \in SUBSET KycMethods : selected' = sel
    /\ personal' = borrower_profile.personal
    /\ kyc_results' = << >>
    /\ kyc_summary' = Null
    /\ raised' = "none"
    /\ pc' = KycStep[1]
    /\ UNCHANGED << form, financial, alternative, validation, features,
                    credit_score_result, risk_assessment, decision,
                    compliance, borrower_profile, credit_decision,
                    kyc_status >>

\* Lines 872-905: the i-th of the five blocks.
PerformKyc(i) ==
    /\ pc = KycStep[i]
    /\ kyc_results' = append_if_selected(KycOrder[i] \in selected,
                                         kyc_results, KycOrder[i])
    /\ pc' = IF i < Len(KycStep) THEN KycStep[i + 1] ELSE "kyc"
    /\ UNCHANGED << form, personal, financial, alternative, validation,
                    features, credit_score_result, risk_assessment, decision,
                    compliance, raised, kyc_summary, session >>

\* Lines 952-956 (the timestamp is a clock reading, left out).
StoreKycStatus ==
    /\ pc = "summarized"
    /\ kyc_status' = [ results |-> kyc_results, summary |-> kyc_summary ]
    /\ pc' = "kyc_done"
    /\ UNCHANGED << form, personal, financial, alternative, validation,
                    features, credit_score_result, risk_assessment, decision,
                    compliance, raised, kyc_results, kyc_summary,
                    borrower_profile, credit_decision, selected >>

NextKycPage ==
    \/ ClickVerify
    \/ \E i \in 1..Len(KycStep) : PerformKyc(i)
    \/ Summarize
    \/ StoreKycStatus

SpecKycPage == InitKycPage /\ [][NextKycPage]_vars

-----------------------------------------------------------------------------

(* The session: the three pages run in any order                           *)

\* The applications the form can submit: the sliders keep the age within
\* 18..75 and the amount at 1000 or more; the income may be 0.
SessionForms ==
    { Merge(BaseForm, e) :
        e \in [ age : {18, 75}, gender : {"Male", "Female"},
                annual_income : {0, 240000} ] }

\* Mutant of submitted_profile: the profile stored without looking at the
\* validation.
profile_unvalidated(valid, personal_data, financial_data, alt_data, current) ==
    [ personal    |-> personal_data,
      financial   |-> financial_data,
      alternative |-> alt_data ]

\* Mutant of submitted_profile: a failed validation clears the profile.
profile_cleared(valid, personal_data, financial_data, alt_data, current) ==
    IF valid
    THEN [ personal    |-> personal_data,
           financial   |-> financial_data,
           alternative |-> alt_data ]
    ELSE Null

\* Lines 682-689: st.session_state.borrower_profile after a submission.
submitted_profile(valid, personal_data, financial_data, alt_data, current) ==
    IF valid
    THEN [ personal    |-> personal_data,
           financial   |-> financial_data,
           alternative |-> alt_data ]
    ELSE current

\* Lines 721-840: the dictionary show_decision_engine stores for a profile.
decision_engine_result(profile) ==
    LET feats == engineer_all_features(profile.personal, profile.financial,
                                       profile.alternative)
        score == generate_credit_score(feats)
        risk  == assess_risk(feats, score.credit_score)
        dec   == make_decision(score.credit_score, risk, feats,
                               profile.personal)
    IN  [ credit_score |-> score,
          risk         |-> risk,
          decision     |-> dec,
          compliance   |-> check_compliance(dec, profile.personal, risk),
          features     |-> feats ]

\* Line 775 raises for the profile, so line 834 is not reached.
decision_engine_raises(profile) ==
    LET feats == engineer_all_features(profile.personal, profile.financial,
                                       profile.alternative)
        score == generate_credit_score(feats)
    IN  make_decision_raises(score.credit_score,
                             assess_risk(feats, score.credit_score), feats,
                             profile.personal)

\* Lines 870-905: the list built for a selection of methods.
RECURSIVE kyc_results_upto(_, _)
kyc_results_upto(sel, i) ==
    IF i = 0 THEN << >>
    ELSE append_if_selected(KycOrder[i] \in sel, kyc_results_upto(sel, i - 1),
                            KycOrder[i])

\* The session starts on the dashboard with nothing stored.
InitSession ==
    /\ form = Null
    /\ pc = "dashboard"
    /\ personal = Null
    /\ financial = Null
    /\ alternative = Null
    /\ validation = Null
    /\ features = Null
    /\ credit_score_result = Null
    /\ risk_assessment = Null
    /\ decision = Null
    /\ compliance = Null
    /\ raised = "none"
    /\ kyc_results = << >>
    /\ kyc_summary = Null
    /\ SessionStart

\* The checkbox settings tried on the KYC page: none ticked, the defaults,
\* one method, all five.
SessionSelections ==
    { {}, DefaultSelected, {"DigiLocker KYC"}, KycMethods }

\* show_loan_application with the form submitted (lines 660-711).
SubmitApplication ==
    /\ \E f \in SessionForms :
           /\ form' = f
           /\ personal' = collect_personal_data(f)
           /\ financial' = collect_financial_data(f)
           /\ alternative' = collect_alternative_data(f)
    /\ validation' = validate_data(Merge(personal', financial'))
    /\ borrower_profile' =
           submitted_profile(validation'.is_valid, personal', financial',
                             alternative', borrower_profile)
    /\ raised' = "none"
    /\ pc' = "loan_application"
    /\ UNCHANGED << features, credit_score_result, risk_assessment, decision,
                    compliance, kyc_results, kyc_summary, credit_decision,
                    kyc_status, selected >>

\* show_decision_engine (lines 713-840): it returns at line 719 without a
\* profile, and stores nothing when an agent raises.
DecisionEngine ==
    /\ credit_decision' =
           IF borrower_profile = Null THEN credit_decision
           ELSE IF decision_engine_raises(borrower_profile)
                THEN credit_decision
                ELSE decision_engine_result(borrower_profile)
    /\ raised' = IF borrower_profile # Null
                    /\ decision_engine_raises(borrower_profile)
                 THEN "ZeroDivisionError" ELSE "none"
    /\ pc' = "decision_engine"
    /\ UNCHANGED << form, personal, financial, alternative, validation,
                    features, credit_score_result, risk_assessment, decision,
                    compliance, kyc_results, kyc_summary, borrower_profile,
                    kyc_status, selected >>

\* show_kyc_verification with the button clicked (lines 842-956): it returns
\* at line 848 without a profile, and stores nothing when line 908 raises.
KycVerification ==
    /\ \E sel \in SessionSelections :
           LET results == kyc_results_upto(sel, Len(KycOrder))
               stores  == borrower_profile # Null
                          /\ ~ get_kyc_summary_raises(results)
           IN  /\ kyc_status' =
                      IF stores
                      THEN [ results |-> results,
                             summary |-> get_kyc_summary(results) ]
                      ELSE kyc_status
               /\ raised' = IF borrower_profile # Null /\ ~ stores
                            THEN "ZeroDivisionError" ELSE "none"
    /\ pc' = "kyc_verification"
    /\ UNCHANGED << form, personal, financial, alternative, validation,
                    features, credit_score_result, risk_assessment, decision,
                    compliance, kyc_results, kyc_summary, borrower_profile,
                    credit_decision, selected >>

\* The dashboard, monitoring and analytics pages (lines 566-577) store
\* nothing in the session.
OtherPage ==
    /\ pc' \in {"dashboard", "monitoring", "analytics"}
    /\ UNCHANGED << form, personal, financial, alternative, validation,
                    features, credit_score_result, risk_assessment, decision,
                    compliance, raised, kyc_results, kyc_summary, session >>

NextSession ==
    \/ SubmitApplication
    \/ DecisionEngine
    \/ KycVerification
    \/ OtherPage

SpecSession == InitSession /\ [][NextSession]_vars

-----------------------------------------------------------------------------

(* Properties                                                              *)

Scored == pc \in {"scored", "assessed", "decided", "complied", "raised"}

Assessed == pc \in {"assessed", "decided", "complied", "raised"}

Decided == pc \in {"decided", "complied"}

\* C1: whatever the application (transaction frequency above 100, expenses
\* above income, debt burden above 1), the credit score returned by
\* generate_credit_score is an integer between 300 and 900.
C1_CreditScoreInRange ==
    Scored => /\ credit_score_result.credit_score \in Int
              /\ 300 <= credit_score_result.credit_score
              /\ credit_score_result.credit_score <= 900

\* C2: for every credit score generate_credit_score produces and every
\* feature set, the default probability returned by assess_risk lies between
\* 0 and 0.95.
C2_DefaultProbabilityInRange ==
    Assessed => /\ 0 <= risk_assessment.default_probability
                /\ risk_assessment.default_probability <= Dec(95, 100)

\* C3: with a positive income and a positive loan amount, validate_data
\* reports is_valid = false exactly for the ages below 18 or above 75.
C3_AgeValidation ==
    (pc = "validated" /\ form.annual_income > 0 /\ form.loan_amount > 0)
        => (validation.is_valid = FALSE <=> (form.age < 18 \/ form.age > 75))

\* C3 witness: the boundary ages have been validated: 76 rejected ...
C3_Witness ==
    /\ pc = "validated"
    /\ form.annual_income > 0
    /\ form.loan_amount > 0
    /\ form.age = 76
    /\ validation.is_valid = FALSE

\* The issues C4 expects for an application: one message per failed check,
\* in the order age, income, loan amount.
ExpectedIssues(f) ==
    (IF f.age < 18 \/ f.age > 75
     THEN << "Age must be between 18-75" >> ELSE << >>)
    \o (IF f.annual_income <= 0
        THEN << "Annual income must be positive" >> ELSE << >>)
    \o (IF f.loan_amount <= 0
        THEN << "Loan amount must be positive" >> ELSE << >>)

\* C4: validate_data accumulates failures: is_valid is false exactly when at
\* least one of the three checks fails, and issues holds one message per
\* failed check in the order age, income, loan amount (none when valid).
C4_IssuesAccumulate ==
    pc = "validated" =>
        /\ validation.is_valid = FALSE <=> (ExpectedIssues(form) # << >>)
        /\ validation.issues = ExpectedIssues(form)

\* C4 witness: an application failing all three checks has been validated.
C4_Witness ==
    /\ pc = "validated"
    /\ form.age > 75
    /\ form.annual_income <= 0
    /\ form.loan_amount <= 0
    /\ Len(validation.issues) = 3

\* C5: for every credit score s, whatever the risk assessment, features and
\* personal data, make_decision returns APPROVED iff s >= 650,
\* CONDITIONAL_APPROVAL iff 550 <= s <= 649 and DECLINED iff s <= 549.
C5_StatusByScore ==
    Decided =>
        LET sc == credit_score_result.credit_score
        IN  /\ decision.status = "APPROVED" <=> sc >= 650
            /\ decision.status = "CONDITIONAL_APPROVAL" <=> (550 <= sc /\ sc <= 649)
            /\ decision.status = "DECLINED" <=> sc <= 549

\* C5 witness: a decision for the score 649, just under the approval line.
C5_Witness ==
    /\ pc = "decided"
    /\ credit_score_result.credit_score = 649
    /\ decision.status = "CONDITIONAL_APPROVAL"
    /\ risk_assessment.risk_category = "LOW"

\* C6: assess_risk assigns exactly one category from the adjusted default
\* probability p: HIGH iff p > 0.30, MEDIUM iff 0.15 < p <= 0.30, LOW iff
\* p <= 0.15.
C6_CategoryByProbability ==
    Assessed =>
        LET p == risk_assessment.default_probability
            c == risk_assessment.risk_category
        IN  /\ c \in {"LOW", "MEDIUM", "HIGH"}
            /\ c = "HIGH" <=> p > Dec(30, 100)
            /\ c = "MEDIUM" <=> (Dec(15, 100) < p /\ p <= Dec(30, 100))
            /\ c = "LOW" <=> p <= Dec(15, 100)

\* C6 witness: assess_risk has returned a probability of exactly 0.30
\* (credit score 750, one risk factor), categorised MEDIUM.
C6_Witness ==
    /\ pc = "assessed"
    /\ credit_score_result.credit_score = 750
    /\ risk_assessment.default_probability = Dec(30, 100)
    /\ risk_assessment.risk_category = "MEDIUM"

\* The base rate (percent) C7 names for a risk category.
RateOfCategory(c) ==
    CASE c = "LOW" -> Dec(85, 10) [] c = "MEDIUM" -> Dec(125, 10)
      [] OTHER -> Dec(165, 10)

InSeq(x, sq) == \E i \in 1..Len(sq) : sq[i] = x

FarmerAndWomanEntrepreneur ==
    /\ Lower(personal.occupation) = "farmer"
    /\ Lower(personal.gender) = "female"
    /\ personal.employment_type = "Self-Employed"

\* C7: for a farmer who is female with employment type "Self-Employed",
\* make_decision returns interest_rate = base rate * 0.85 * 0.90 (the two
\* reductions compound), and both scheme conditions are present.
C7_SchemesCompound ==
    (Decided /\ FarmerAndWomanEntrepreneur) =>
        /\ decision.interest_rate * 100 * 100
               = RateOfCategory(risk_assessment.risk_category) * 85 * 90
        /\ InSeq("Eligible for government subsidy schemes", decision.conditions)
        /\ InSeq("Eligible for women entrepreneur schemes", decision.conditions)

\* C7 witness: such an applicant decided at HIGH risk: 16.5 * 0.85 * 0.90.
C7_Witness ==
    /\ pc = "decided"
    /\ FarmerAndWomanEntrepreneur
    /\ risk_assessment.risk_category = "HIGH"
    /\ decision.interest_rate = Dec(126225, 10000)

\* C8: in every decision with approved_amount > 0, emi is the amortization
\* payment of approved_amount over tenure_months at the interest_rate the
\* returned decision carries.
C8_EmiAtReturnedRate ==
    (Decided /\ decision.approved_amount > 0) =>
        decision.emi = amortized_payment(decision.approved_amount,
                                         monthly_rate_of(decision.interest_rate),
                                         decision.tenure_months)

DegenerateInput ==
    \/ form.annual_income <= 0
    \/ form.tenure = 0
    \/ form.loan_amount = 0

\* C9: no stage raises on degenerate inputs (zero or negative income, zero
\* tenure, zero loan amount): every stage returns a result and the guarded
\* ratios are 0.
C9_NoStageRaises ==
    DegenerateInput =>
        /\ raised = "none"
        /\ pc # "raised"

\* C10: get_kyc_summary called with an empty list returns a summary with
\* total_methods_used = 0 and kyc_score = 0 instead of raising.
C10_EmptyListSummary ==
    (kyc_results = << >> /\ pc # "kyc") =>
        /\ pc = "summarized"
        /\ kyc_summary.total_methods_used = 0
        /\ kyc_summary.kyc_score = 0

\* The SUCCESS records of a list, in input order.
SuccessRecords(results) == SelectSeq(results, LAMBDA r : r.status = "SUCCESS")

\* C11: for every non-empty list of records, get_kyc_summary returns
\* kyc_score = 100 * (SUCCESS records) / (records), to the precision kept,
\* all_verified = true iff every record is SUCCESS, methods_completed = the
\* method names of the SUCCESS records in input order, and
\* is_kyc_compliant = true even when kyc_score < 100.
C11_KycSummaryContract ==
    (pc = "summarized" /\ kyc_results # << >>) =>
        LET n  == Len(kyc_results)
            ok == SuccessRecords(kyc_results)
        IN  /\ kyc_summary.total_methods_used = n
            /\ 2 * kyc_summary.kyc_score * n <= 2 * 100 * Len(ok) * Scale + 100 * n
            /\ 2 * kyc_summary.kyc_score * n >= 2 * 100 * Len(ok) * Scale - 100 * n
            /\ (Len(ok) = n) => kyc_summary.kyc_score = 100 * Scale
            /\ kyc_summary.all_verified
                   <=> (\A i \in 1..n : kyc_results[i].status = "SUCCESS")
            /\ kyc_summary.methods_completed
                   = [i \in 1..Len(ok) |-> ok[i].method]
            /\ kyc_summary.is_kyc_compliant = TRUE

\* C11 witness: a list of a failed record followed by two successful ones has
\* been summarised: score 66.67, not all verified, still compliant.
C11_Witness ==
    /\ pc = "summarized"
    /\ Len(kyc_results) = 3
    /\ kyc_results[1].status = "FAILURE"
    /\ kyc_summary.methods_completed
           = << kyc_results[2].method, kyc_results[3].method >>
    /\ kyc_summary.kyc_score = 6667 * 100
    /\ kyc_summary.all_verified = FALSE
    /\ kyc_summary.is_kyc_compliant = TRUE

\* C12: for an application whose credit-history months are greater than 0,
\* the feature set engineer_all_features builds from the collected groups has
\* has_credit_history = 1, and the risk assessment on it has the
\* no_credit_history factor false.
C12_CreditHistoryFeature ==
    (form.credit_history > 0) =>
        /\ (pc \notin {"start", "collected", "validated"})
               => features.has_credit_history = 1
        /\ Assessed => risk_assessment.risk_factors.no_credit_history = FALSE

\* The application of the end-to-end scenario of C13; the entries it does not
\* name (age, gender, employment type, location tier, credit history) are free.
C13_Scenario ==
    /\ form.annual_income = 240000
    /\ form.monthly_expenses = 8000
    /\ form.savings = 50000
    /\ form.loan_amount = 100000
    /\ form.tenure = 12
    /\ form.existing_emi = 0
    /\ form.bank_frequency = 10
    /\ form.utility_consistency = 80
    /\ form.psychometric_score = 65
    /\ form.digital_score = 60
    /\ Lower(form.occupation) = "farmer"

\* What C13 says of the scenario apart from the status and the rate: monthly
\* income 20000, debt burden with the new loan above 0.40 (flag set), a
\* credit score between 500 and 699 and the farmer-subsidy condition.
C13_Figures ==
    /\ features.monthly_income = 20000 * Cent
    /\ features.debt_burden_with_new_loan > Dec(40, 100)
    /\ risk_assessment.risk_factors.high_debt_burden = TRUE
    /\ 500 <= credit_score_result.credit_score
    /\ credit_score_result.credit_score <= 699
    /\ InSeq("Eligible for government subsidy schemes", decision.conditions)

\* C13: the end-to-end scenario yields monthly income 20000, debt burden
\* above 0.40 with the high_debt_burden flag, a credit score between 500 and
\* 699, status DECLINED or CONDITIONAL_APPROVAL, the farmer-subsidy condition
\* and an interest rate of 0.85 x the base rate of the risk category.
C13_ScenarioOutcome ==
    (Decided /\ C13_Scenario) =>
        /\ C13_Figures
        /\ decision.status \in {"DECLINED", "CONDITIONAL_APPROVAL"}
        /\ decision.interest_rate * 100
               = RateOfCategory(risk_assessment.risk_category) * 85

\* C13 as amended: the same figures, but the status is APPROVED (the score
\* is at least 650), and the rate is 0.85 x the base rate unless the
\* applicant is also female with employment type "Self-Employed", when it is
\* 0.85 x 0.90 x the base rate.
C13_ScenarioApproved ==
    (Decided /\ C13_Scenario) =>
        /\ C13_Figures
        /\ credit_score_result.credit_score >= 650
        /\ decision.status = "APPROVED"
        /\ IF FarmerAndWomanEntrepreneur
           THEN decision.interest_rate * 100 * 100
                    = RateOfCategory(risk_assessment.risk_category) * 85 * 90
           ELSE decision.interest_rate * 100
                    = RateOfCategory(risk_assessment.risk_category) * 85

\* C13 witness: the scenario decided for a male applicant in a tier-3
\* location: score 694, HIGH risk, APPROVED at 16.5 * 0.85 = 14.025.
C13_Witness ==
    /\ pc = "decided"
    /\ C13_Scenario
    /\ form.gender = "Male"
    /\ form.location_tier = "3"
    /\ credit_score_result.credit_score = 694
    /\ risk_assessment.risk_category = "HIGH"
    /\ decision.status = "APPROVED"
    /\ decision.interest_rate = Dec(14025, 1000)

\* C14: check_compliance returns is_compliant = false iff the age is outside
\* [18, 75]; the scrutiny warning is present iff default_probability > 0.30,
\* whatever the age, and it leaves is_compliant as the age check set it.
C14_ComplianceByAge ==
    (pc = "complied") =>
        LET outside == form.age < 18 \/ form.age > 75
            risky   == risk_assessment.default_probability > Dec(30, 100)
        IN  /\ compliance.is_compliant = FALSE <=> outside
            /\ compliance.checks.age_eligible <=> ~ outside
            /\ InSeq("High default risk - requires additional scrutiny",
                     compliance.warnings) <=> risky
            /\ InSeq("Age outside permissible range (18-75)",
                     compliance.warnings) <=> outside

\* C14 witness: an applicant aged 75 with default probability 0.31 has been
\* checked: the scrutiny warning is there and the application is compliant.
C14_Witness ==
    /\ pc = "complied"
    /\ form.age = 75
    /\ risk_assessment.default_probability = Dec(31, 100)
    /\ compliance.warnings
           = << "High default risk - requires additional scrutiny" >>
    /\ compliance.is_compliant = TRUE

\* The results of the agents on the application of the current run with its
\* cibil_score entry taken away.
TwinPersonal == collect_personal_data(WithoutCibil(form))

TwinFeatures ==
    engineer_all_features(TwinPersonal,
                          collect_financial_data(WithoutCibil(form)),
                          collect_alternative_data(WithoutCibil(form)))

TwinScore == generate_credit_score(TwinFeatures)

TwinRisk == assess_risk(TwinFeatures, TwinScore.credit_score)

TwinRaises ==
    make_decision_raises(TwinScore.credit_score, TwinRisk, TwinFeatures,
                         TwinPersonal)

TwinDecision ==
    make_decision(TwinScore.credit_score, TwinRisk, TwinFeatures, TwinPersonal)

TwinCompliance == check_compliance(TwinDecision, TwinPersonal, TwinRisk)

\* C15: the CIBIL score is not consulted: an application and the same
\* application with another cibil_score, or none, get the same feature set,
\* credit score result, risk assessment, decision and compliance result.
C15_CibilNotConsulted ==
    /\ (pc \notin {"start", "collected", "validated"})
           => features = TwinFeatures
    /\ Scored => credit_score_result = TwinScore
    /\ Assessed => risk_assessment = TwinRisk
    /\ (pc = "raised") => TwinRaises
    /\ Decided => (~ TwinRaises /\ decision = TwinDecision)
    /\ (pc = "complied")
           => /\ compliance.is_compliant = TwinCompliance.is_compliant
              /\ compliance.checks = TwinCompliance.checks
              /\ compliance.warnings = TwinCompliance.warnings

\* C15 witness: an application with CIBIL score 650 has gone through every
\* agent; the score was collected into the financial group.
C15_Witness ==
    /\ pc = "complied"
    /\ "cibil_score" \in DOMAIN form
    /\ form.cibil_score = 650
    /\ financial.cibil_score = 650
    /\ collect_financial_data(WithoutCibil(form)).cibil_score = None
    /\ decision = TwinDecision

\* C16: in every decision, approved_amount = min(monthly_income * 48,
\* loan_amount_to_income * monthly_income * 12) of the feature set and is not
\* negative; for a feature set built from an application it exceeds neither
\* the requested loan amount nor four times the annual income floored to 1.
C16_ApprovedAmount ==
    Decided =>
        /\ decision.approved_amount
               = Min(features.monthly_income * 48,
                     FMul(features.loan_amount_to_income,
                          features.monthly_income) * 12)
        /\ decision.approved_amount >= 0
        /\ decision.approved_amount <= form.loan_amount * Cent
        /\ decision.approved_amount <= 4 * Max(form.annual_income, 1) * Cent

FarmerEligible == Lower(personal.occupation) = "farmer"

WomanEntrepreneurEligible ==
    /\ Lower(personal.gender) = "female"
    /\ personal.employment_type = "Self-Employed"

\* C17: the interest rate of a decision is the base rate of the risk
\* category (LOW 8.5, MEDIUM 12.5, HIGH 16.5) times the scheme reductions,
\* whatever the status; a DECLINED decision carries a non-zero rate, an emi
\* when approved_amount > 0, and the scheme conditions when eligible.
C17_RateIndependentOfStatus ==
    Decided =>
        /\ decision.interest_rate * 100 * 100
               = RateOfCategory(risk_assessment.risk_category)
                 * (IF FarmerEligible THEN 85 ELSE 100)
                 * (IF WomanEntrepreneurEligible THEN 90 ELSE 100)
        /\ (decision.status = "DECLINED") =>
               /\ decision.interest_rate > 0
               /\ (decision.approved_amount > 0) => decision.emi > 0
               /\ FarmerEligible
                      => InSeq("Eligible for government subsidy schemes",
                               decision.conditions)
               /\ WomanEntrepreneurEligible
                      => InSeq("Eligible for women entrepreneur schemes",
                               decision.conditions)

\* C17 witness: a declined farmer who is a woman entrepreneur, at LOW risk:
\* rate 8.5 * 0.85 * 0.90, an emi, and both scheme conditions.
C17_Witness ==
    /\ pc = "decided"
    /\ decision.status = "DECLINED"
    /\ FarmerEligible
    /\ WomanEntrepreneurEligible
    /\ risk_assessment.risk_category = "LOW"
    /\ decision.interest_rate = Dec(65025, 10000)
    /\ decision.approved_amount > 0
    /\ decision.emi > 0
    /\ decision.conditions = << "Eligible for government subsidy schemes",
                                "Eligible for women entrepreneur schemes" >>

\* A female applicant whose employment type is "Self-Employed" up to letter
\* case, but not in that spelling.
SelfEmployedInOtherCase ==
    /\ Lower(form.gender) = "female"
    /\ Lower(form.employment_type) = "self-employed"
    /\ form.employment_type # "Self-Employed"

\* C18: a female applicant whose employment type differs from
\* "Self-Employed" only in letter case gets is_woman_entrepreneur = 1 and the
\* 25-point demographic bonus, but no x0.90 rate reduction and no
\* women-entrepreneur condition; the farmer feature and the farmer scheme
\* both compare the occupation case-insensitively.
C18_CaseSensitiveScheme ==
    /\ (pc \notin {"start", "collected", "validated"}) =>
           /\ SelfEmployedInOtherCase => features.is_woman_entrepreneur = 1
           /\ features.is_farmer = 1 <=> Lower(form.occupation) = "farmer"
    /\ (Scored /\ SelfEmployedInOtherCase) =>
           credit_score_result.demographic_bonus
               = 25 + (IF form.location_tier = "3" THEN 10 ELSE 0)
    /\ Decided =>
           /\ SelfEmployedInOtherCase =>
                  /\ ~ InSeq("Eligible for women entrepreneur schemes",
                             decision.conditions)
                  /\ decision.interest_rate * 100
                         = RateOfCategory(risk_assessment.risk_category)
                           * (IF Lower(form.occupation) = "farmer"
                              THEN 85 ELSE 100)
           /\ InSeq("Eligible for government subsidy schemes",
                    decision.conditions)
                  <=> Lower(form.occupation) = "farmer"

\* C18 witness: a decision for a female applicant, not a farmer, with
\* employment type "SELF-EMPLOYED": the feature and the bonus are there, the
\* rate is the unreduced base rate and no scheme condition was added.
C18_Witness ==
    /\ pc = "decided"
    /\ form.gender = "Female"
    /\ form.employment_type = "SELF-EMPLOYED"
    /\ form.occupation = "Employed"
    /\ form.location_tier = "1"
    /\ features.is_woman_entrepreneur = 1
    /\ credit_score_result.demographic_bonus = 25
    /\ decision.interest_rate
           = RateOfCategory(risk_assessment.risk_category)
    /\ decision.conditions = status_conditions(credit_score_result.credit_score)

\* The methods that have a record in a list, and how many records each has.
RecordsOf(results, m) ==
    Cardinality({ i \in 1..Len(results) : results[i].method = m })

ExactlySelected(results) ==
    \A m \in KycMethods :
        RecordsOf(results, m) = (IF m \in selected THEN 1 ELSE 0)

\* C19: in a KYC run with k >= 1 methods selected the summary is computed
\* once, and only after every selected method has appended its record:
\* total_methods_used = k, one record per selected method and none of an
\* unselected one; kyc_status is stored only after the summary exists.
C19_SummaryAfterAllMethods ==
    [][ /\ (kyc_summary' # kyc_summary /\ kyc_summary' # Null) =>
               /\ pc = "kyc"
               /\ kyc_summary = Null
               /\ Cardinality(selected) >= 1
               /\ ExactlySelected(kyc_results)
               /\ kyc_summary'.total_methods_used = Cardinality(selected)
        /\ (kyc_status' # kyc_status) =>
               /\ kyc_summary # Null
               /\ kyc_summary' = kyc_summary
               /\ kyc_status'.summary = kyc_summary
               /\ kyc_status'.results = kyc_results
               /\ ExactlySelected(kyc_results)
        /\ (pc # "kyc" /\ pc' = "kyc") => ExactlySelected(kyc_results')
      ]_vars

\* C19 witness: a run with the three default methods has stored its status:
\* three records, in the order the page runs the methods.
C19_Witness ==
    /\ pc = "kyc_done"
    /\ selected = DefaultSelected
    /\ kyc_status.summary.total_methods_used = 3
    /\ kyc_status.summary.methods_completed
           = << "Aadhaar e-KYC", "Video KYC (V-CIP)", "Central KYC (CKYCR)" >>
    /\ kyc_status.results = kyc_results

\* C20: assess_risk and make_decision run on the same credit score s: every
\* decision that is not APPROVED (s <= 649) has risk category HIGH, hence
\* the base rate 16.5 (before the scheme reductions), and check_compliance
\* on it carries the high-default-risk scrutiny warning.
C20_NonApprovedIsHighRisk ==
    (Decided /\ decision.status \in {"CONDITIONAL_APPROVAL", "DECLINED"}) =>
        /\ credit_score_result.credit_score <= 649
        /\ risk_assessment.risk_category = "HIGH"
        /\ risk_assessment.default_probability > Dec(30, 100)
        /\ decision.interest_rate * 100 * 100
               = Dec(165, 10) * (IF FarmerEligible THEN 85 ELSE 100)
                              * (IF WomanEntrepreneurEligible THEN 90 ELSE 100)
        /\ (pc = "complied")
               => InSeq("High default risk - requires additional scrutiny",
                        compliance.warnings)

\* C20 witness: the score 649 has been assessed, decided and checked:
\* CONDITIONAL_APPROVAL at HIGH risk, with the scrutiny warning.
C20_Witness ==
    /\ pc = "complied"
    /\ credit_score_result.credit_score = 649
    /\ decision.status = "CONDITIONAL_APPROVAL"
    /\ risk_assessment.risk_category = "HIGH"
    /\ InSeq("High default risk - requires additional scrutiny",
             compliance.warnings)

\* A stored profile passed validation.
ProfilePassedValidation ==
    /\ 18 <= borrower_profile.personal.age
    /\ borrower_profile.personal.age <= 75
    /\ borrower_profile.financial.annual_income > 0
    /\ borrower_profile.financial.loan_amount_requested > 0

\* C21: whatever pages are visited and forms submitted, credit_decision and
\* kyc_status are set only when borrower_profile is set, every stored
\* borrower_profile passed validation, and every compliance result stored
\* in credit_decision has is_compliant = true.
C21_SessionGating ==
    /\ (credit_decision # Null) => borrower_profile # Null
    /\ (kyc_status # Null) => borrower_profile # Null
    /\ (borrower_profile # Null) => ProfilePassedValidation
    /\ (credit_decision # Null)
           => credit_decision.compliance.is_compliant = TRUE

\* C21 witness: a session that holds a profile, a decision and a KYC status
\* after a submission with income 0 was turned away.
C21_Witness ==
    /\ pc = "loan_application"
    /\ form.annual_income = 0
    /\ validation.is_valid = FALSE
    /\ borrower_profile # Null
    /\ credit_decision # Null
    /\ kyc_status # Null
    /\ credit_decision.compliance.is_compliant = TRUE

\* C22: submitting the application form never modifies credit_decision or
\* kyc_status; a submission that fails validation leaves borrower_profile as
\* it was, one that passes replaces borrower_profile by the collected data.
C22_SubmissionFrame ==
    [][ (pc' = "loan_application") =>
            /\ credit_decision' = credit_decision
            /\ kyc_status' = kyc_status
            /\ (validation'.is_valid = FALSE)
                   => borrower_profile' = borrower_profile
            /\ (validation'.is_valid = TRUE)
                   => borrower_profile' = [ personal    |-> personal',
                                            financial   |-> financial',
                                            alternative |-> alternative' ]
      ]_vars

\* C22 witness: a second applicant has just been accepted while the session
\* still holds the decision and the KYC status of the first.
C22_Witness ==
    /\ pc = "loan_application"
    /\ validation.is_valid = TRUE
    /\ borrower_profile.personal = personal
    /\ credit_decision # Null
    /\ credit_decision.features.age # borrower_profile.personal.age
    /\ kyc_status # Null

\* C23: check_compliance records kyc_verified = true and the 'KYC Verified
\* at' audit entry in every run, also when no KYC verification was ever
\* performed in the session; each call appends exactly two audit entries and
\* the four static checks are true.
C23_KycVerifiedRegardless ==
    (credit_decision # Null) =>
        LET c == credit_decision.compliance
        IN  /\ c.checks.kyc_verified = TRUE
            /\ c.checks.no_gender_discrimination = TRUE
            /\ c.checks.no_location_discrimination = TRUE
            /\ c.checks.decision_explainable = TRUE
            /\ Len(c.audit_trail) = 2
            /\ c.audit_trail[1] = "KYC Verified at"

\* C23 witness: a decision is stored in a session that never ran a KYC
\* verification, and its compliance result says KYC is verified.
C23_Witness ==
    /\ pc = "decision_engine"
    /\ kyc_status = Null
    /\ credit_decision # Null
    /\ credit_decision.compliance.checks.kyc_verified = TRUE
    /\ InSeq("KYC Verified at", credit_decision.compliance.audit_trail)

\* The conditions C24 expects for a status: one for APPROVED, two for
\* CONDITIONAL_APPROVAL, none for DECLINED.
ConditionsOfStatus(st) ==
    CASE st = "APPROVED" -> << "Standard terms apply" >>
      [] st = "CONDITIONAL_APPROVAL" ->
             << "Manual review recommended",
                "Additional collateral may be required" >>
      [] OTHER -> << >>

\* C24: the status of a returned decision is never PENDING;
\* rejection_reasons is non-empty iff the status is DECLINED, and then holds
\* one reason; conditions holds the status conditions, then the farmer
\* condition, then the women-entrepreneur condition.
C24_DecisionShape ==
    Decided =>
        /\ decision.status
               \in {"APPROVED", "CONDITIONAL_APPROVAL", "DECLINED"}
        /\ (decision.rejection_reasons # << >>) <=> decision.status = "DECLINED"
        /\ Len(decision.rejection_reasons) <= 1
        /\ decision.conditions
               = ConditionsOfStatus(decision.status)
                 \o (IF FarmerEligible
                     THEN << "Eligible for government subsidy schemes" >>
                     ELSE << >>)
                 \o (IF WomanEntrepreneurEligible
                     THEN << "Eligible for women entrepreneur schemes" >>
                     ELSE << >>)

\* C24 witness: a declined farmer who is a woman entrepreneur: one rejection
\* reason together with the two scheme conditions.
C24_Witness ==
    /\ pc = "decided"
    /\ decision.status = "DECLINED"
    /\ decision.rejection_reasons = << "Credit score below minimum threshold" >>
    /\ Len(decision.conditions) = 2
    /\ decision.conditions[1] = "Eligible for government subsidy schemes"
    /\ decision.conditions[2] = "Eligible for women entrepreneur schemes"

=============================================================================
